---------------------------- MODULE Spec2Model ----------------------------
(***************************************************************************)
(* rbldnsd main program (src/rbldnsd.c): the netlist matcher and the main  *)
(* loop with its signal handling, dataset reload, statistics and query log.*)
(***************************************************************************)
EXTENDS Integers, Sequences, FiniteSets, TLC

(***************************************************************************)
(* Bounds of the model.                                                    *)
(***************************************************************************)
\* longest netlist (number of tokens) that is parsed
MaxTokens == 2

\* events from outside in one run: signals sent to the process, expiries of
\* the alarm() timer and datagrams that arrive at the socket
MaxEvents == 2

\* longest datagram (bytes) received or sent
MaxLen == 2

\* successful dataset reloads in one run
MaxVer == 2

\* signal handlers nested on the stack at one time
MaxNest == 2

\* the latest time the clock shows (seconds since the start)
MaxTime == 1

(***************************************************************************)
(* ip4addr_t: a 32-bit unsigned value, held as its four octets, the most   *)
(* significant first (the numbers exceed the range of the checker's        *)
(* integers).                                                              *)
(***************************************************************************)
RECURSIVE Pow2(_)
Pow2(n) == IF n = 0 THEN 1 ELSE 2 * Pow2(n - 1)

RECURSIVE BitAndN(_, _, _)
BitAndN(a, b, n) ==
  IF n = 0 THEN 0
  ELSE ((a % 2) * (b % 2)) + 2 * BitAndN(a \div 2, b \div 2, n - 1)

\* the four octets a.b.c.d as a 32-bit value
IP(a, b, c, d) == <<a, b, c, d>>

IP4ZERO == IP(0, 0, 0, 0)

IP4ALL == IP(255, 255, 255, 255)

\* a & b on ip4addr_t
BitAnd(a, b) == [i \in 1..4 |-> BitAndN(a[i], b[i], 8)]

\* the number of leading one bits a prefix of length bits leaves in octet i
OctetOnes(bits, i) ==
  IF bits >= 8 * i THEN 8
  ELSE IF bits <= 8 * (i - 1) THEN 0
  ELSE bits - 8 * (i - 1)

\* ip4mask(bits): the netmask of a prefix length, ~(0xffffffff >> bits)
ip4mask(bits) == [i \in 1..4 |-> 256 - Pow2(8 - OctetOnes(bits, i))]

\* byte swap of a 32-bit value
bswap(x) == IP(x[4], x[3], x[2], x[1])

VARIABLES
  byteorder,   \* "little" or "big": the byte order of the host
  optA,        \* -a netlist: [given, toks]
  optL,        \* -L netlist: [given, toks]
  quickstart,  \* -q
  logfile,     \* -l: TRUE when a log file name is configured
  recheck,     \* -c: interval between checks for reload (seconds)
  qryfilt,     \* static struct ip4list *qryfilt (NULL or the rule list)
  logfilt,     \* static struct ip4list *logfilt (NULL or the rule list)
  initialized, \* static int initialized
  signalled,   \* static volatile int signalled
  pc,          \* position of the main flow of control
  sigmask,     \* the signal mask of the process (set of blocked signals)
  ssorig,      \* sigset_t ssorig of the drain
  sigpend,     \* signals generated and not yet delivered
  hstack,      \* the sighandler invocations in progress, innermost last
  timer,       \* TRUE while the alarm() timer is armed
  eintr,       \* a handler ran while recvfrom() was blocked
  flog,        \* FILE *flog: TRUE when open, FALSE when NULL
  zonever,     \* the dataset snapshot the zone list holds (0: nothing loaded)
  stats,       \* struct dnsstats stats
  q,           \* int q: length of the datagram in hand
  r,           \* int r: length of the reply
  sin,         \* source address of the datagram in hand (network order)
  reply,       \* the reply built by replypacket: [rcode, arcount, ver]
  mres,        \* result of the last ip4list_match probe on qryfilt
  did,         \* what the drain in progress has done so far
  qlog,        \* the records appended to the query log: source addresses
  sent,        \* number of reply datagrams sent
  rres,        \* int r of do_reload: what reloadzones() returned last
  oomcall,     \* oom() was called during the last reloadzones()
  tried,       \* do_reload has been called
  accept_in_cidr, \* -e: CIDR ranges with non-zero host part are accepted
  cidr,        \* a call of ip4parse_cidr: [a, b, ap, ret]
  now,         \* the clock: what time(NULL) returned last
  report,      \* the last statistics line logstats wrote: [elapsed, s]
  nev          \* events from outside so far

cfgvars == <<byteorder, optA, optL, quickstart, logfile, recheck, accept_in_cidr>>

netvars == <<qryfilt, logfilt>>

sigvars == <<signalled, sigmask, ssorig, sigpend, hstack, timer, eintr>>

reqvars == <<q, r, sin, reply, qlog, sent>>

vars == <<cfgvars, netvars, sigvars, reqvars, initialized, pc, flog, zonever,
          stats, mres, did, rres, oomcall, tried, cidr, now, report, nev>>

\* htonl(x): host to network byte order
htonl(x) == IF byteorder = "little" THEN bswap(x) ELSE x

\* an option that was not given, and one given with a netlist
NoOpt == [given |-> FALSE, toks |-> <<>>]

Opt(toks) == [given |-> TRUE, toks |-> toks]

\* the NULL list pointer: a list with no element
NULL == <<>>

(***************************************************************************)
(* The netlist (struct ip4list): a sequence of [addr, mask, value], addr   *)
(* and mask in network byte order.                                         *)
(***************************************************************************)
ip4list_new_nomask(addr, mask, value) == [addr |-> addr, mask |-> mask, value |-> value]

ip4list_new(addr, mask, value) ==
  [addr |-> BitAnd(addr, mask), mask |-> mask, value |-> value]

RECURSIVE ip4list_match_last(_, _)
ip4list_match_last(list, addr) ==
  IF list = <<>> THEN 0
  ELSE IF BitAnd(addr, list[Len(list)].mask) = list[Len(list)].addr
       THEN list[Len(list)].value
       ELSE ip4list_match_last(SubSeq(list, 1, Len(list) - 1), addr)

RECURSIVE ip4list_match(_, _)
ip4list_match(list, addr) ==
  IF list = <<>> THEN 0
  ELSE IF BitAnd(addr, Head(list).mask) = Head(list).addr
       THEN Head(list).value
       ELSE ip4list_match(Tail(list), addr)

(***************************************************************************)
(* A token of a netlist, after strtok() and the strspn() test:             *)
(*   neg   the token starts with '!'                                       *)
(*   ip    the rest consists of "0123456789./" only                        *)
(*   addr  ip: the address ip4cidr() hands back (host order)               *)
(*   bits  ip: what ip4cidr() returns (0: invalid);                        *)
(*         host: atoi() of the text after '/', or -1 when there is no '/'  *)
(*   he    host: the h_addr_list of gethostbyname() (network order), or    *)
(*         <<>> when the lookup fails                                      *)
(***************************************************************************)
IpTok(neg, addr, bits) ==
  [neg |-> neg, ip |-> TRUE, addr |-> addr, bits |-> bits, he |-> <<>>]

HostTok(neg, he, bits) ==
  [neg |-> neg, ip |-> FALSE, addr |-> IP4ZERO, bits |-> bits, he |-> he]

RECURSIVE HostRules(_, _, _)
HostRules(he, mask, accept) ==
  IF he = <<>> THEN <<>>
  ELSE <<ip4list_new(Head(he), mask, accept)>> \o HostRules(Tail(he), mask, accept)

\* error() is called for the token (lines 198-199, 211-212, 219-220)
TokenError(t) ==
  IF t.ip THEN t.bits = 0
  ELSE \/ t.bits # -1 /\ (t.bits < 1 \/ t.bits > 32)
       \/ t.he = <<>>

\* the rules one token adds (lines 196-227)
TokenRules(t, accept) ==
  IF t.ip
  THEN <<ip4list_new(htonl(t.addr), htonl(ip4mask(t.bits)), accept)>>
  ELSE HostRules(t.he,
                 IF t.bits = -1 THEN IP4ALL ELSE htonl(ip4mask(t.bits)),
                 accept)

\* the loop of parsenetlist over the tokens, from token i with the rules so far;
\* err: error() was called and the process has exited
RECURSIVE parsenetlist_from(_, _, _, _)
parsenetlist_from(toks, i, accept, iplist) ==
  IF i > Len(toks)
  THEN [err |-> FALSE, list |-> iplist \o <<ip4list_new(IP4ZERO, IP4ZERO, 1 - accept)>>]
  ELSE LET acc == IF toks[i].neg THEN 0 ELSE 1
       IN IF TokenError(toks[i]) THEN [err |-> TRUE, list |-> <<>>]
          ELSE parsenetlist_from(toks, i + 1, acc,
                                 iplist \o TokenRules(toks[i], acc))

parsenetlist_accept0(toks) == parsenetlist_from(toks, 1, 0, <<>>)

parsenetlist(toks) == parsenetlist_from(toks, 1, 1, <<>>)

(***************************************************************************)
(* Inputs of the netlist checks.                                           *)
(***************************************************************************)
A127_0_0_1 == IP(127, 0, 0, 1)

A127_0_0_2 == IP(127, 0, 0, 2)

A127_1_2_3 == IP(127, 1, 2, 3)

A10_0_0_1 == IP(10, 0, 0, 1)

A10_0_0_0 == IP(10, 0, 0, 0)

A127_0_0_0 == IP(127, 0, 0, 0)

A192_168_1_9 == IP(192, 168, 1, 9)

\* host-order addresses queries come from
AddrPool == {A127_0_0_1, A127_0_0_2, A127_1_2_3, A10_0_0_1, A192_168_1_9, IP4ZERO, IP4ALL}

RECURSIVE MapHtonl(_)
MapHtonl(s) == IF s = <<>> THEN <<>> ELSE <<htonl(Head(s))>> \o MapHtonl(Tail(s))

TokenPool ==
  { IpTok(n, A127_0_0_1, b) : n \in BOOLEAN, b \in {8, 32} }
  \cup { IpTok(n, A10_0_0_0, 8) : n \in BOOLEAN }
  \cup { IpTok(TRUE, A127_0_0_0, 8), IpTok(FALSE, A10_0_0_1, 0) }
  \cup { HostTok(FALSE, MapHtonl(<<A10_0_0_1>>), -1),
         HostTok(TRUE, MapHtonl(<<A10_0_0_1>>), 24),
         HostTok(FALSE, MapHtonl(<<A127_0_0_2, A192_168_1_9>>), 24),
         HostTok(TRUE, MapHtonl(<<A127_0_0_2, A192_168_1_9>>), -1) }
  \cup { HostTok(FALSE, <<>>, -1),
         HostTok(FALSE, MapHtonl(<<A10_0_0_1>>), 33),
         HostTok(TRUE, MapHtonl(<<A10_0_0_1>>), 0) }

RECURSIVE SeqsUpTo(_, _)
SeqsUpTo(S, n) ==
  IF n = 0 THEN {<<>>}
  ELSE LET shorter == SeqsUpTo(S, n - 1)
       IN shorter \cup { Append(s, x) : s \in {t \in shorter : Len(t) = n - 1}, x \in S }

\* the netlist of usage(): 127.0.0.1,!127/8
UsageNetlist == <<IpTok(FALSE, A127_0_0_1, 32), IpTok(TRUE, A127_0_0_0, 8)>>

(***************************************************************************)
(* init(): case 'a' and case 'L' of the option loop (lines 282-283).       *)
(***************************************************************************)
ParseOpts ==
  /\ pc = "getopt"
  /\ LET a == IF optA.given THEN parsenetlist(optA.toks) ELSE [err |-> FALSE, list |-> NULL]
         l == IF optL.given THEN parsenetlist(optL.toks) ELSE [err |-> FALSE, list |-> NULL]
     IN IF a.err \/ l.err
        THEN /\ pc' = "aborted"
             /\ UNCHANGED <<qryfilt, logfilt>>
        ELSE /\ pc' = "parsed"
             /\ qryfilt' = a.list
             /\ logfilt' = l.list
  /\ UNCHANGED <<cfgvars, cidr, sigvars, reqvars, initialized, flog, zonever, stats, mres, did, nev, now, report, rres, oomcall, tried>>

\* one evaluation of the query filter as in line 554, on an address a
NetMatch(a) ==
  /\ pc = "parsed"
  /\ qryfilt # NULL
  /\ sin' = htonl(a)
  /\ mres' = ip4list_match(qryfilt, htonl(a))
  /\ UNCHANGED <<cfgvars, cidr, netvars, sigvars, q, r, reply, qlog, sent,
                 initialized, pc, flog, zonever, stats, did, nev, now, report, rres, oomcall, tried>>

(***************************************************************************)
(* The pending-event bitset and the signals.                               *)
(***************************************************************************)
SIGNALLED_ALRM == 1

SIGNALLED_HUP == 2

SIGNALLED_USR1 == 4

SIGNALLED_USR2 == 8

SIGNALLED_TERM == 16

SIGNALLED_BITS == 5

AllBits == {SIGNALLED_ALRM, SIGNALLED_HUP, SIGNALLED_USR1, SIGNALLED_USR2, SIGNALLED_TERM}

\* x & m and x | m on the int signalled
And(x, m) == BitAndN(x, m, SIGNALLED_BITS)

Or(x, m) == x + m - And(x, m)

\* the bits set in x
Bits(x) == {b \in AllBits : And(x, b) # 0}

Signals == {"SIGALRM", "SIGHUP", "SIGUSR1", "SIGUSR2", "SIGTERM", "SIGINT"}

\* the switch of sighandler: the bit a signal sets
SigBit(sig) ==
  CASE sig = "SIGALRM" -> SIGNALLED_ALRM
    [] sig = "SIGHUP"  -> SIGNALLED_HUP
    [] sig = "SIGUSR1" -> SIGNALLED_USR1
    [] sig = "SIGUSR2" -> SIGNALLED_USR2
    [] sig = "SIGTERM" -> SIGNALLED_TERM
    [] sig = "SIGINT"  -> SIGNALLED_TERM

\* setup_signals: the signals added to ssblock
ssblock_none == {}

ssblock == {"SIGHUP", "SIGALRM", "SIGUSR1", "SIGUSR2"}

\* the process runs and sighandler is installed (from setup_signals to exit)
Running == pc \notin {"getopt", "parsed", "setup", "aborted", "exited"}

\* signals that cannot be delivered now: the process mask, and each signal
\* whose handler is running (sa_mask is empty, SA_NODEFER is not set)
Blocked == sigmask \cup {hstack[i].sig : i \in 1..Len(hstack)}

Deliverable == sigpend \ Blocked

\* the main flow of control executes: no handler is running and no signal
\* waits to be delivered
MainRuns == hstack = <<>> /\ Deliverable = {}

Top == hstack[Len(hstack)]

Pop == SubSeq(hstack, 1, Len(hstack) - 1)

SetTop(f) == [hstack EXCEPT ![Len(hstack)] = f]

\* a signal is sent to the process from outside (kill)
Raise(sig) ==
  /\ Running
  /\ nev < MaxEvents
  /\ nev' = nev + 1
  /\ UNCHANGED <<now, report>>
  /\ sigpend' = sigpend \cup {sig}
  /\ UNCHANGED <<cfgvars, cidr, netvars, reqvars, initialized, pc, flog, zonever, stats,
                 mres, did, signalled, sigmask, ssorig, hstack, timer, eintr, rres, oomcall, tried>>

\* the alarm() timer expires: SIGALRM is generated, the timer is one-shot;
\* counted: the expiry is one of the MaxEvents events of the run, and comes at
\* any moment; the others come while the main flow executes (the interval is
\* a second at least, a handler takes no such time)
Expire(counted) ==
  /\ Running
  /\ timer
  /\ IF counted
     THEN nev < MaxEvents /\ nev' = nev + 1
     ELSE MainRuns /\ UNCHANGED nev
  /\ timer' = FALSE
  /\ sigpend' = sigpend \cup {"SIGALRM"}
  /\ UNCHANGED <<cfgvars, cidr, netvars, reqvars, initialized, pc, flog, zonever, stats,
                 mres, did, signalled, sigmask, ssorig, hstack, eintr, rres, oomcall,
                 tried, now, report>>

TimerFire == Expire(TRUE)

\* the expiries of a timer that runs for ever
TimerTick == Expire(FALSE)

\* the kernel delivers a pending signal: sighandler(sig) is entered, on top of
\* the main flow or of another handler; a blocked recvfrom() will fail (EINTR)
Deliver(sig) ==
  /\ Running
  /\ sig \in Deliverable
  /\ Len(hstack) < MaxNest
  /\ sigpend' = sigpend \ {sig}
  /\ hstack' = Append(hstack,
                      [sig |-> sig,
                       at |-> IF sig = "SIGALRM" THEN "alarm" ELSE "load",
                       tmp |-> 0])
  /\ eintr' = (eintr \/ pc = "recvwait")
  /\ UNCHANGED <<cfgvars, cidr, netvars, reqvars, initialized, pc, flog, zonever, stats,
                 mres, did, signalled, sigmask, ssorig, timer, nev, now, report, rres, oomcall, tried>>

\* sighandler, case SIGALRM, as it would be without the call of alarm()
HAlarm_once ==
  /\ hstack # <<>>
  /\ Top.at = "alarm"
  /\ hstack' = SetTop([Top EXCEPT !.at = "load"])
  /\ UNCHANGED <<cfgvars, cidr, netvars, reqvars, initialized, pc, flog, zonever, stats,
                 mres, did, signalled, sigmask, ssorig, sigpend, timer, eintr, nev, now,
                 report, rres, oomcall, tried>>

\* sighandler, case SIGALRM: alarm(recheck); alarm(0) arms nothing
HAlarm ==
  /\ hstack # <<>>
  /\ Top.at = "alarm"
  /\ timer' = (recheck > 0)
  /\ hstack' = SetTop([Top EXCEPT !.at = "load"])
  /\ UNCHANGED <<cfgvars, cidr, netvars, reqvars, initialized, pc, flog, zonever, stats,
                 mres, did, signalled, sigmask, ssorig, sigpend, eintr, nev, now, report, rres, oomcall, tried>>

\* sighandler, signalled |= bit: the read of signalled
HLoad ==
  /\ hstack # <<>>
  /\ Top.at = "load"
  /\ hstack' = SetTop([Top EXCEPT !.at = "store", !.tmp = signalled])
  /\ UNCHANGED <<cfgvars, cidr, netvars, reqvars, initialized, pc, flog, zonever, stats,
                 mres, did, signalled, sigmask, ssorig, sigpend, timer, eintr, nev, now, report, rres, oomcall, tried>>

\* the value sighandler stores
StoredOverwrite(tmp, sig) == SigBit(sig)

Stored(tmp, sig) == Or(tmp, SigBit(sig))

\* sighandler as it would be if it reloaded the zones itself on SIGHUP
HStoreReloads ==
  /\ hstack # <<>>
  /\ Top.at = "store"
  /\ signalled' = Stored(Top.tmp, Top.sig)
  /\ hstack' = Pop
  /\ zonever' = IF Top.sig = "SIGHUP" /\ zonever < MaxVer THEN zonever + 1 ELSE zonever
  /\ UNCHANGED <<cfgvars, cidr, netvars, reqvars, initialized, pc, flog, stats,
                 mres, did, sigmask, ssorig, sigpend, timer, eintr, nev, now, report, rres, oomcall, tried>>

\* sighandler, signalled |= bit: the write of signalled, and the return
HStore ==
  /\ hstack # <<>>
  /\ Top.at = "store"
  /\ signalled' = Stored(Top.tmp, Top.sig)
  /\ hstack' = Pop
  /\ UNCHANGED <<cfgvars, cidr, netvars, reqvars, initialized, pc, flog, zonever, stats,
                 mres, did, sigmask, ssorig, sigpend, timer, eintr, nev, now, report, rres, oomcall, tried>>

sighandler == HAlarm \/ HLoad \/ HStore

(***************************************************************************)
(* Dataset reload, statistics, query log.                                  *)
(***************************************************************************)
\* what reloadzones() returns: failed, nothing changed, reloaded; a load
\* during which oom() is called and returns is a failed load
ReloadResults == {-1, 0, 1}

\* the snapshot the zone list holds after reloadzones() returned res
reloadzones(ver, res) == IF res > 0 THEN ver + 1 ELSE ver

\* the value do_reload returns when reloadzones() returned res
do_reload_strict(res) == IF res > 0 THEN 1 ELSE 0

do_reload(res) == IF res = 0 THEN 1 ELSE IF res < 0 THEN 0 ELSE 1

\* oom(): TRUE when it calls error() and the process exits
oom_fatal_always == TRUE

oom_fatal == initialized = 0

ZeroStats ==
  [nrep |-> 0, irep |-> 0, orep |-> 0, arep |-> 0,
   nnxd |-> 0, inxd |-> 0, onxd |-> 0,
   nerr |-> 0, ierr |-> 0, oerr |-> 0,
   nbad |-> 0, ibad |-> 0,
   stime |-> 0]

\* the counters of s without the start of the epoch
Counters(s) == [s EXCEPT !.stime = 0]

\* time(NULL): the clock does not run backwards
Times == now..MaxTime

\* logstats(s, reset) at time t: the line it writes
statsline(s, t) == [elapsed |-> t - s.stime, s |-> Counters(s)]

\* logstats(s, reset) at time t: the counters it leaves
logstats_keeps(s, reset, t) == s

logstats(s, reset, t) == IF reset # 0 THEN [ZeroStats EXCEPT !.stime = t] ELSE s

\* reopenlog(flog, logfile): the handle it returns when open()/fdopen()
\* succeed (ok) or fail
reopenlog_keeps(f, ok) == f \/ ok

reopenlog(f, ok) == ok

Rcodes == {"NOERROR", "NXDOMAIN", "OTHER"}

NoReply == [rcode |-> "NOERROR", arcount |-> 0, ver |-> 0]

\* the switch on pkt.p_buf[3] (lines 568-579)
Classified_rep(s, rc, ar, qq, rr) ==
  [s EXCEPT !.nrep = @ + 1, !.irep = @ + qq, !.orep = @ + rr, !.arep = @ + ar]

Classified(s, rc, ar, qq, rr) ==
  CASE rc = "NOERROR" ->
         [s EXCEPT !.nrep = @ + 1, !.irep = @ + qq, !.orep = @ + rr, !.arep = @ + ar]
    [] rc = "NXDOMAIN" ->
         [s EXCEPT !.nnxd = @ + 1, !.inxd = @ + qq, !.onxd = @ + rr]
    [] OTHER ->
         [s EXCEPT !.nerr = @ + 1, !.ierr = @ + qq, !.oerr = @ + rr]

\* the test of line 565: the reply is written to the query log
LogsAlways(f, filt, addr) == f

Logs(f, filt, addr) == f /\ (filt = NULL \/ ip4list_match(filt, addr) # 0)

\* the test of line 554: the request is ignored
DropsNever(filt, addr) == FALSE

Drops(filt, addr) == filt # NULL /\ ip4list_match(filt, addr) = 0

(***************************************************************************)
(* init() from line 401 and main() up to the loop.                         *)
(***************************************************************************)
\* lines 402-403: what init leaves in signalled
init_signalled_none(qs) == signalled

init_signalled(qs) == IF qs THEN SIGNALLED_ALRM ELSE signalled

InitLoad ==
  /\ pc = "parsed"
  /\ IF quickstart
     THEN /\ signalled' = init_signalled(quickstart)
          /\ initialized' = 1
          /\ pc' = "setup"
          /\ UNCHANGED <<zonever, rres, oomcall, tried>>
     ELSE \E res \in ReloadResults, oom \in BOOLEAN :
            /\ res > 0 => zonever < MaxVer
            /\ oom => res < 0
            /\ rres' = res
            /\ oomcall' = oom
            /\ tried' = TRUE
            /\ IF oom /\ oom_fatal
               THEN /\ pc' = "aborted"
                    /\ UNCHANGED <<zonever, initialized>>
               ELSE /\ zonever' = reloadzones(zonever, res)
                    /\ IF do_reload(res) = 0
                       THEN pc' = "aborted" /\ UNCHANGED initialized
                       ELSE pc' = "setup" /\ initialized' = 1
            /\ UNCHANGED signalled
  /\ UNCHANGED <<cfgvars, cidr, netvars, reqvars, flog, stats, mres, did,
                 sigmask, ssorig, sigpend, hstack, timer, eintr, nev, now, report>>

\* main, lines 514-525: setup_signals, the log is opened, the timer armed
MainSetup ==
  /\ pc = "setup"
  /\ \E ok \in BOOLEAN :
       flog' = IF logfile THEN reopenlog(FALSE, ok) ELSE FALSE
  /\ timer' = (recheck > 0)
  /\ \E t \in Times :
       /\ now' = t
       /\ stats' = [ZeroStats EXCEPT !.stime = t]
  /\ rres' = 0
  /\ oomcall' = FALSE
  /\ pc' = "test"
  /\ UNCHANGED <<cfgvars, cidr, netvars, reqvars, initialized, zonever, mres, did,
                 signalled, sigmask, ssorig, sigpend, hstack, eintr, nev, report, tried>>

(***************************************************************************)
(* The main loop: the drain of the pending events (lines 529-548).         *)
(***************************************************************************)
\* line 529: if (signalled)
TestSignalled ==
  /\ pc = "test" /\ MainRuns
  /\ pc' = IF signalled # 0 THEN "block" ELSE "recv"
  /\ UNCHANGED <<cfgvars, cidr, netvars, sigvars, reqvars, initialized, flog, zonever,
                 stats, mres, did, rres, oomcall, tried, nev, now, report, rres, oomcall>>

\* line 531: sigprocmask(SIG_BLOCK, &ssblock, &ssorig)
DrainBlock ==
  /\ pc = "block" /\ MainRuns
  /\ ssorig' = sigmask
  /\ sigmask' = sigmask \cup ssblock
  /\ did' = <<>>
  /\ pc' = "chkterm"
  /\ UNCHANGED <<cfgvars, cidr, netvars, reqvars, initialized, flog, zonever, stats, mres,
                 signalled, sigpend, hstack, timer, eintr, nev, now, report, rres, oomcall, tried>>

\* lines 532-537: the shutdown request
DrainTerm ==
  /\ pc = "chkterm" /\ MainRuns
  /\ IF And(signalled, SIGNALLED_TERM) # 0
     THEN /\ \E t \in Times :
               /\ now' = t
               /\ report' = statsline(stats, t)
               /\ stats' = logstats(stats, 0, t)
          /\ did' = Append(did, "stats0")
          /\ pc' = "exited"
     ELSE /\ pc' = "chkstats"
          /\ UNCHANGED <<stats, did, now, report>>
  /\ UNCHANGED <<cfgvars, cidr, netvars, sigvars, reqvars, initialized, flog, zonever, mres,
                 nev, rres, oomcall, tried>>

\* lines 538-541: the statistics report
DrainStats ==
  /\ pc = "chkstats" /\ MainRuns
  /\ IF And(signalled, Or(SIGNALLED_USR1, SIGNALLED_USR2)) # 0
     THEN /\ \E t \in Times :
               /\ now' = t
               /\ report' = statsline(stats, t)
               /\ stats' = logstats(stats, And(signalled, SIGNALLED_USR2), t)
          /\ did' = Append(did, IF And(signalled, SIGNALLED_USR2) # 0
                                THEN "stats1" ELSE "stats0")
     ELSE UNCHANGED <<stats, did, now, report>>
  /\ pc' = "chkhup"
  /\ UNCHANGED <<cfgvars, cidr, netvars, sigvars, reqvars, initialized, flog, zonever, mres,
                 nev, rres, oomcall, tried>>

\* lines 542-543: the log rotation; "warn": the warning of line 496
DrainRotate ==
  /\ pc = "chkhup" /\ MainRuns
  /\ IF And(signalled, SIGNALLED_HUP) # 0 /\ logfile
     THEN \E ok \in BOOLEAN :
            /\ flog' = reopenlog(flog, ok)
            /\ did' = did \o (IF ok THEN <<"rotate">> ELSE <<"rotate", "warn">>)
     ELSE UNCHANGED <<flog, did>>
  /\ pc' = "chkreload"
  /\ UNCHANGED <<cfgvars, cidr, netvars, sigvars, reqvars, initialized, zonever, stats, mres, nev, now, report, rres, oomcall, tried>>

\* lines 544-545: the reload; the value of do_reload is not used, and oom()
\* returns since initialized is set
DrainReload ==
  /\ pc = "chkreload" /\ MainRuns
  /\ IF And(signalled, Or(SIGNALLED_HUP, SIGNALLED_ALRM)) # 0
     THEN \E res \in ReloadResults, oom \in BOOLEAN :
            /\ res > 0 => zonever < MaxVer
            /\ oom => res < 0
            /\ rres' = res
            /\ oomcall' = oom
            /\ tried' = TRUE
            /\ IF oom /\ oom_fatal
               THEN pc' = "aborted" /\ UNCHANGED <<zonever, did>>
               ELSE /\ zonever' = reloadzones(zonever, res)
                    /\ did' = Append(did, "reload")
                    /\ pc' = "clear"
     ELSE pc' = "clear" /\ UNCHANGED <<zonever, did, rres, oomcall, tried>>
  /\ UNCHANGED <<cfgvars, cidr, netvars, sigvars, reqvars, initialized, flog, stats, mres, nev, now, report>>

\* line 546: signalled = 0
DrainClear ==
  /\ pc = "clear" /\ MainRuns
  /\ signalled' = 0
  /\ pc' = "unblock"
  /\ UNCHANGED <<cfgvars, cidr, netvars, reqvars, initialized, flog, zonever, stats, mres,
                 did, sigmask, ssorig, sigpend, hstack, timer, eintr, nev, now, report, rres, oomcall, tried>>

\* line 547: sigprocmask(SIG_SETMASK, &ssorig, NULL)
DrainUnblock ==
  /\ pc = "unblock" /\ MainRuns
  /\ sigmask' = ssorig
  /\ did' = <<>>
  /\ rres' = 0
  /\ oomcall' = FALSE
  /\ pc' = "recv"
  /\ UNCHANGED <<cfgvars, cidr, netvars, reqvars, initialized, flog, zonever, stats, mres,
                 signalled, ssorig, sigpend, hstack, timer, eintr, nev, now, report, tried>>

(***************************************************************************)
(* The main loop: one datagram (lines 550-585).                            *)
(***************************************************************************)
\* what replypacket() may hand back: length, reply code, arcount
ReplyPool ==
  {<<0, "NOERROR", 0>>, <<1, "NOERROR", 1>>, <<MaxLen, "NXDOMAIN", 0>>, <<1, "OTHER", 0>>}

\* the datagrams that arrive: length, source address (host order)
DgramPool == {<<1, A127_0_0_1>>, <<MaxLen, A127_0_0_2>>, <<MaxLen, A10_0_0_1>>}

\* the iteration is over (continue, or the end of the loop body): q, r, sin
\* and the packet buffer are dead until the next recvfrom
Idle ==
  /\ q' = 0
  /\ r' = 0
  /\ sin' = IP4ZERO
  /\ reply' = NoReply
  /\ pc' = "test"

\* line 551: recvfrom() is entered
RecvEnter ==
  /\ pc = "recv" /\ MainRuns
  /\ eintr' = FALSE
  /\ pc' = "recvwait"
  /\ UNCHANGED <<cfgvars, cidr, netvars, reqvars, initialized, flog, zonever, stats, mres,
                 did, signalled, sigmask, ssorig, sigpend, hstack, timer, nev, now, report, rres, oomcall, tried>>

\* recvfrom() returns a datagram of len bytes from src
RecvDatagram(len, src) ==
  /\ pc = "recvwait" /\ MainRuns /\ ~eintr
  /\ nev < MaxEvents
  /\ nev' = nev + 1
  /\ UNCHANGED <<now, report>>
  /\ q' = len
  /\ sin' = htonl(src)
  /\ pc' = "filter"
  /\ UNCHANGED <<cfgvars, cidr, netvars, sigvars, r, reply, qlog, sent, initialized, flog,
                 zonever, stats, mres, did, rres, oomcall, tried>>

\* recvfrom() returns 0 or fails for another reason than a signal: continue
RecvFail ==
  /\ pc = "recvwait" /\ MainRuns /\ ~eintr
  /\ pc' = "test"
  /\ UNCHANGED <<cfgvars, cidr, netvars, sigvars, reqvars, initialized, flog, zonever,
                 stats, mres, did, rres, oomcall, tried, nev, now, report, rres, oomcall>>

\* recvfrom() fails with EINTR after a handler ran (sa_flags has no
\* SA_RESTART): continue
RecvEintr ==
  /\ pc = "recvwait" /\ MainRuns /\ eintr
  /\ eintr' = FALSE
  /\ pc' = "test"
  /\ UNCHANGED <<cfgvars, cidr, netvars, reqvars, initialized, flog, zonever, stats, mres,
                 did, signalled, sigmask, ssorig, sigpend, hstack, timer, nev, now, report, rres, oomcall, tried>>

\* lines 554-555: requests from unauthorized nets are ignored
Filter ==
  /\ pc = "filter" /\ MainRuns
  /\ IF Drops(qryfilt, sin)
     THEN Idle
     ELSE pc' = "reply" /\ UNCHANGED <<q, r, sin, reply>>
  /\ UNCHANGED <<cfgvars, cidr, netvars, sigvars, qlog, sent, initialized, flog,
                 zonever, stats, mres, did, nev, now, report, rres, oomcall, tried>>

\* lines 557-564: replypacket() builds a reply of len bytes from the current
\* dataset, or returns 0
BuildReply(len, rc, ar) ==
  /\ pc = "reply" /\ MainRuns
  /\ IF len = 0
     THEN /\ stats' = [stats EXCEPT !.nbad = @ + 1, !.ibad = @ + q]
          /\ Idle
     ELSE /\ r' = len
          /\ reply' = [rcode |-> rc, arcount |-> ar, ver |-> zonever]
          /\ pc' = "account"
          /\ UNCHANGED <<stats, q, sin>>
  /\ UNCHANGED <<cfgvars, cidr, netvars, sigvars, qlog, sent, initialized, flog,
                 zonever, mres, did, nev, now, report, rres, oomcall, tried>>

\* lines 565-579: the query log and the statistics
Account ==
  /\ pc = "account" /\ MainRuns
  /\ qlog' = IF Logs(flog, logfilt, sin) THEN Append(qlog, sin) ELSE qlog
  /\ stats' = Classified(stats, reply.rcode, reply.arcount, q, r)
  /\ pc' = "send"
  /\ UNCHANGED <<cfgvars, cidr, netvars, sigvars, q, r, sin, reply, sent,
                 initialized, flog, zonever, mres, did, nev, now, report, rres, oomcall, tried>>

\* lines 583-584: sendto() succeeds, fails with EINTR (retry) or fails
Send(res) ==
  /\ pc = "send" /\ MainRuns
  /\ CASE res = "ok"    -> sent' = sent + 1 /\ Idle
       [] res = "eintr" -> UNCHANGED <<sent, q, r, sin, reply, pc>>
       [] res = "error" -> UNCHANGED sent /\ Idle
  /\ UNCHANGED <<cfgvars, cidr, netvars, sigvars, qlog, initialized, flog,
                 zonever, stats, mres, did, nev, now, report, rres, oomcall, tried>>

(***************************************************************************)
(* The specifications.                                                     *)
(***************************************************************************)
\* no call of ip4parse_cidr, no statistics line yet
NoCidr == [a |-> IP4ZERO, b |-> 0, ap |-> IP4ZERO, ret |-> -1]

NoReport == [elapsed |-> -1, s |-> ZeroStats]

InitState ==
  /\ qryfilt = NULL
  /\ logfilt = NULL
  /\ initialized = 0
  /\ signalled = 0
  /\ pc = "getopt"
  /\ sigmask = {}
  /\ ssorig = {}
  /\ sigpend = {}
  /\ hstack = <<>>
  /\ timer = FALSE
  /\ eintr = FALSE
  /\ flog = FALSE
  /\ zonever = 0
  /\ stats = ZeroStats
  /\ q = 0
  /\ r = 0
  /\ sin = IP4ZERO
  /\ reply = NoReply
  /\ mres = -1
  /\ did = <<>>
  /\ rres = 0
  /\ oomcall = FALSE
  /\ tried = FALSE
  /\ now = 0
  /\ report = NoReport
  /\ qlog = <<>>
  /\ sent = 0

\* the log filter of the runs of the daemon: !10/8
LogNetlist == <<IpTok(TRUE, A10_0_0_0, 8)>>

Init ==
  /\ byteorder = "little"
  /\ \E c \in {<<NoOpt, NoOpt, FALSE>>, <<NoOpt, NoOpt, TRUE>>,
                <<Opt(UsageNetlist), Opt(LogNetlist), TRUE>>} :
       optA = c[1] /\ optL = c[2] /\ logfile = c[3]
  /\ quickstart \in BOOLEAN
  /\ recheck = 60
  /\ accept_in_cidr = 0
  /\ nev = 0
  /\ cidr = NoCidr
  /\ InitState

Next ==
  \/ ParseOpts
  \/ InitLoad
  \/ MainSetup
  \/ \E sig \in Signals : Raise(sig)
  \/ TimerFire
  \/ \E sig \in Signals : Deliver(sig)
  \/ HAlarm
  \/ HLoad
  \/ HStore
  \/ TestSignalled
  \/ DrainBlock
  \/ DrainTerm
  \/ DrainStats
  \/ DrainRotate
  \/ DrainReload
  \/ DrainClear
  \/ DrainUnblock
  \/ RecvEnter
  \/ \E d \in DgramPool : RecvDatagram(d[1], d[2])
  \/ RecvFail
  \/ RecvEintr
  \/ Filter
  \/ \E rp \in ReplyPool : BuildReply(rp[1], rp[2], rp[3])
  \/ Account
  \/ \E res \in {"ok", "eintr", "error"} : Send(res)

Spec == Init /\ [][Next]_vars

\* the daemon with a timer that runs for ever and one event from outside,
\* under fair scheduling: the main flow, the handlers, the delivery of the
\* signals and the timer go on, and the main flow gets to run between the
\* expiries of the timer; recvfrom returns a datagram only if one arrives
InitTimer ==
  /\ byteorder = "little"
  /\ optA = NoOpt /\ optL = NoOpt /\ logfile = TRUE
  /\ quickstart \in BOOLEAN
  /\ recheck = 60
  /\ accept_in_cidr = 0
  /\ nev = MaxEvents - 1
  /\ cidr = NoCidr
  /\ InitState

NextTimer ==
  \/ Next
  \/ TimerTick

MainStep ==
  \/ ParseOpts \/ InitLoad \/ MainSetup
  \/ TestSignalled \/ DrainBlock \/ DrainTerm \/ DrainStats \/ DrainRotate
  \/ DrainReload \/ DrainClear \/ DrainUnblock
  \/ RecvEnter \/ RecvEintr \/ Filter
  \/ \E rp \in ReplyPool : BuildReply(rp[1], rp[2], rp[3])
  \/ Account
  \/ \E res \in {"ok", "eintr", "error"} : Send(res)

FairTimer ==
  /\ SF_vars(MainStep)
  /\ WF_vars(sighandler)
  /\ WF_vars(\E sig \in Signals : Deliver(sig))
  /\ WF_vars(TimerTick)

SpecTimer == InitTimer /\ [][NextTimer]_vars /\ FairTimer

(***************************************************************************)
(* ip4parse_cidr (lines 589-599) on what ip4cidr() parsed: the address a   *)
(* and the prefix length bits (0: not a CIDR).                             *)
(***************************************************************************)
\* ~x on ip4addr_t
BitNot(x) == [i \in 1..4 |-> 255 - x[i]]

\* the address in *ap and the value returned
ip4parse_cidr(a, bits, accept) ==
  IF bits # 0
  THEN LET hmask == BitNot(ip4mask(bits))
       IN IF BitAnd(a, hmask) # IP4ZERO
          THEN IF accept = 0
               THEN [ap |-> a, ret |-> 0]
               ELSE [ap |-> BitAnd(a, hmask), ret |-> bits]
          ELSE [ap |-> a, ret |-> bits]
  ELSE [ap |-> a, ret |-> bits]

\* the addresses of the CIDR ranges parsed
CidrAddrs == {A127_0_0_0, A127_0_0_1, A127_1_2_3, A10_0_0_0, A192_168_1_9, IP4ZERO, IP4ALL}

\* the prefix lengths ip4cidr() returns
MaxBits == 32

ParseCidr ==
  /\ cidr.ret = -1
  /\ LET res == ip4parse_cidr(cidr.a, cidr.b, accept_in_cidr)
     IN cidr' = [cidr EXCEPT !.ap = res.ap, !.ret = res.ret]
  /\ UNCHANGED <<cfgvars, netvars, sigvars, reqvars, initialized, pc, flog, zonever,
                 stats, mres, did, rres, oomcall, tried, now, report, nev>>

InitCidr ==
  /\ byteorder = "little"
  /\ optA = NoOpt /\ optL = NoOpt /\ logfile = FALSE
  /\ quickstart = FALSE
  /\ recheck = 60
  /\ accept_in_cidr \in {0, 1}
  /\ nev = 0
  /\ InitState
  /\ \E a \in CidrAddrs, b \in 0..MaxBits :
       cidr = [a |-> a, b |-> b, ap |-> a, ret |-> -1]

NextCidr == ParseCidr

SpecCidr == InitCidr /\ [][NextCidr]_vars

\* the netlist functions alone: every netlist, then the matcher on every address
InitNet ==
  /\ byteorder \in {"little", "big"}
  /\ optA \in { Opt(t) : t \in SeqsUpTo(TokenPool, MaxTokens) }
  /\ optL = NoOpt
  /\ quickstart = FALSE
  /\ logfile = FALSE
  /\ recheck = 60
  /\ accept_in_cidr = 0
  /\ nev = 0
  /\ cidr = NoCidr
  /\ InitState

NextNet ==
  \/ ParseOpts
  \/ \E a \in AddrPool : NetMatch(a)

SpecNet == InitNet /\ [][NextNet]_vars

(***************************************************************************)
(* The netlist matcher.                                                    *)
(***************************************************************************)
\* the rules of a list that an address matches
MatchSet(list, a) == {i \in 1..Len(list) : BitAnd(a, list[i].mask) = list[i].addr}

Least(S) == CHOOSE x \in S : \A y \in S : x <= y

CatchAll(value) == [addr |-> IP4ZERO, mask |-> IP4ZERO, value |-> value]

\* the query filter has been built and evaluated on sin
Matched == pc = "parsed" /\ mres # -1

\* C7: on every list parsenetlist builds and every address, ip4list_match
\* returns the verdict of the first rule in build order that the address
\* matches, whatever the prefix lengths; the last rule is the catch-all with
\* mask 0, so some rule always matches; for 127.0.0.1,!127/8 the address
\* 127.0.0.1 is accepted and 127.0.0.2 is not.
C7_FirstMatch ==
  Matched =>
    /\ qryfilt[Len(qryfilt)].mask = IP4ZERO
    /\ MatchSet(qryfilt, sin) # {}
    /\ mres = qryfilt[Least(MatchSet(qryfilt, sin))].value
    /\ mres \in {0, 1}
    /\ (optA = Opt(UsageNetlist) /\ sin = htonl(A127_0_0_1)) => mres = 1
    /\ (optA = Opt(UsageNetlist) /\ sin = htonl(A127_0_0_2)) => mres = 0

\* an earlier, less specific rule decides although a later, more specific
\* rule with the other verdict matches too
C7_Witness ==
  /\ Matched
  /\ \E i, j \in MatchSet(qryfilt, sin) :
       /\ i < j
       /\ BitAnd(qryfilt[j].mask, qryfilt[i].mask) = qryfilt[i].mask
       /\ qryfilt[j].mask # qryfilt[i].mask
       /\ qryfilt[j].mask = IP4ALL
       /\ qryfilt[i].value # qryfilt[j].value
       /\ mres = qryfilt[i].value

\* C8 as claimed: the empty netlist builds only the catch-all and the matcher
\* allows every address.
C8_EmptyAllowsAll ==
  (pc = "parsed" /\ optA = Opt(<<>>)) =>
    /\ Len(qryfilt) = 1
    /\ qryfilt[1].mask = IP4ZERO
    /\ mres # -1 => mres = 1

\* C8 amended: the empty netlist builds only the catch-all, with the verdict
\* false, and the matcher refuses every address.
C8_EmptyDeniesAll ==
  (pc = "parsed" /\ optA = Opt(<<>>)) =>
    /\ qryfilt = <<CatchAll(0)>>
    /\ mres # -1 => mres = 0

C8_Witness == pc = "parsed" /\ optA = Opt(<<>>) /\ sin = IP4ALL /\ mres = 0

(***************************************************************************)
(* The drain of the pending events.                                        *)
(***************************************************************************)
RECURSIVE Count(_, _)
Count(seq, x) ==
  IF seq = <<>> THEN 0
  ELSE (IF Head(seq) = x THEN 1 ELSE 0) + Count(Tail(seq), x)

\* the positions of main between sigprocmask(SIG_BLOCK) and the restore
DrainPcs == {"chkterm", "chkstats", "chkhup", "chkreload", "clear", "unblock"}

\* the drain in progress has carried out what bit b asks for
ActedOn(b) ==
  CASE b = SIGNALLED_ALRM -> Count(did, "reload") > 0
    [] b = SIGNALLED_HUP  -> Count(did, "reload") > 0 /\ (logfile => Count(did, "rotate") > 0)
    [] b = SIGNALLED_USR1 -> Count(did, "stats0") + Count(did, "stats1") > 0
    [] b = SIGNALLED_USR2 -> Count(did, "stats1") > 0
    [] b = SIGNALLED_TERM -> FALSE

\* C1: no event is lost: every bit that signalled = 0 (line 546) erases has
\* been acted on by the drain that erases it.
C1_NoEventLost ==
  [][(pc = "clear" /\ pc' = "unblock") => \A b \in Bits(signalled) : ActedOn(b)]_vars

\* C2: a drain carries out the action of every kind that is pending exactly
\* once, however often the kind was raised, and leaves no bit of a handled
\* kind behind: the next test of signalled finds nothing unless a signal was
\* delivered after the clear.
C2_HandledOnce ==
  /\ pc = "clear" =>
       /\ Count(did, "reload") =
            IF And(signalled, Or(SIGNALLED_HUP, SIGNALLED_ALRM)) # 0 THEN 1 ELSE 0
       /\ Count(did, "rotate") =
            IF And(signalled, SIGNALLED_HUP) # 0 /\ logfile THEN 1 ELSE 0
       /\ Count(did, "stats0") + Count(did, "stats1") =
            IF And(signalled, Or(SIGNALLED_USR1, SIGNALLED_USR2)) # 0 THEN 1 ELSE 0
       /\ Count(did, "stats1") =
            IF And(signalled, SIGNALLED_USR2) # 0 THEN 1 ELSE 0
  /\ pc = "unblock" => Bits(signalled) \subseteq {SIGNALLED_TERM}

\* SIGHUP was raised twice before the drain, which has reloaded once
C2_Witness ==
  /\ ~quickstart /\ ~optA.given
  /\ nev = 2 /\ stats = ZeroStats /\ timer
  /\ pc = "clear" /\ hstack = <<>> /\ sigpend = {}
  /\ signalled = SIGNALLED_HUP
  /\ Count(did, "reload") = 1

\* C3: between sigprocmask(SIG_BLOCK) and the restore of the mask sighandler
\* never runs, for any handled signal.
C3_DrainSuspendsAll == pc \in DrainPcs => hstack = <<>>

C5_FatalOnlyAtStartup ==
  /\ [][(pc = "parsed" /\ pc' # pc /\ ~quickstart) =>
          /\ rres' < 0 => pc' = "aborted"
          /\ (rres' >= 0 /\ ~oomcall') => pc' = "setup"]_vars
  /\ [](pc = "aborted" => (nev = 0 /\ sent = 0 /\ qlog = <<>> /\ stats = ZeroStats))
  /\ [][(pc = "chkreload" /\ pc' # pc) => pc' = "clear"]_vars

\* the first load under quickstart has failed and the drain goes on
C5_Witness == quickstart /\ pc = "clear" /\ rres < 0 /\ zonever = 0

\* C6: once the loop runs, the process ends only in the drain, on the
\* shutdown bit, after one statistics report that leaves the counters.
C6_OnlyShutdownExits ==
  [][(Running /\ ~Running') =>
       /\ pc = "chkterm"
       /\ And(signalled, SIGNALLED_TERM) # 0
       /\ pc' = "exited"
       /\ stats' = stats
       /\ did' = <<"stats0">>]_vars

\* the process has exited with the counters of an answered query intact
C6_Witness == pc = "exited" /\ stats.nrep = 1 /\ sent = 1

\* C9: a datagram the query filter refuses ends the iteration with no reply
\* built or sent, nothing logged and no counter changed; without a query
\* filter every datagram goes on to replypacket.
C9_FilteredUnchanged ==
  /\ [][(pc = "filter" /\ pc' # pc /\ qryfilt # NULL /\ ip4list_match(qryfilt, sin) = 0) =>
          (pc' = "test" /\ sent' = sent /\ stats' = stats /\ qlog' = qlog)]_vars
  /\ [][(pc = "filter" /\ pc' # pc /\ qryfilt = NULL) => pc' = "reply"]_vars
  /\ [](pc \in {"reply", "account", "send"} =>
          (qryfilt = NULL \/ ip4list_match(qryfilt, sin) # 0))

\* a datagram from 127.0.0.2 is in hand and the query filter refuses it
C9_Witness ==
  /\ pc = "filter" /\ qryfilt # NULL
  /\ sin = htonl(A127_0_0_2)
  /\ ip4list_match(qryfilt, sin) = 0

\* C10: no address the log filter refuses is ever in the log, while its query
\* is counted and goes on to be sent; with the log open and no log filter
\* every reply is logged; a request replypacket rejects is not logged.
C10_LogFilter ==
  /\ [](\A i \in 1..Len(qlog) : logfilt = NULL \/ ip4list_match(logfilt, qlog[i]) # 0)
  /\ [][(pc = "account" /\ pc' # pc) =>
          /\ pc' = "send"
          /\ stats' = Classified(stats, reply.rcode, reply.arcount, q, r)
          /\ (flog /\ logfilt = NULL) => qlog' = Append(qlog, sin)
          /\ (flog /\ logfilt # NULL /\ ip4list_match(logfilt, sin) = 0) => qlog' = qlog
          /\ ~flog => qlog' = qlog]_vars
  /\ [][(pc = "reply" /\ pc' = "test") => (qlog' = qlog /\ sent' = sent)]_vars
  /\ [][qlog' # qlog => pc = "account"]_vars

\* a counted query from 10.0.0.1, which the log filter refuses, is about to
\* be answered and is not in the open log
C10_Witness ==
  /\ pc = "send" /\ flog /\ logfilt # NULL
  /\ ip4list_match(logfilt, sin) = 0
  /\ qlog = <<>>
  /\ stats # ZeroStats

(***************************************************************************)
(* Statistics.                                                             *)
(***************************************************************************)
\* the step is a call of logstats that the drain records as k
StatsStep(k) == Len(did') = Len(did) + 1 /\ did'[Len(did')] = k

\* C11: a report with reset writes the counters accumulated so far, then
\* leaves every counter zero and the epoch start at the time of the report,
\* with no datagram in hand; a report without reset changes nothing; the
\* counters change only by a request or a reset, so that a report handled
\* next after a reset shows zeros, and the elapsed time shown is never
\* negative.
C11_StatsReset ==
  /\ [][StatsStep("stats1") =>
          /\ pc = "chkstats" /\ q = 0
          /\ report' = [elapsed |-> now' - stats.stime, s |-> Counters(stats)]
          /\ Counters(stats') = ZeroStats
          /\ stats'.stime = now']_vars
  /\ [][StatsStep("stats0") =>
          /\ stats' = stats
          /\ report' = [elapsed |-> now' - stats.stime, s |-> Counters(stats)]]_vars
  /\ [][Counters(stats') # Counters(stats) =>
          (pc \in {"reply", "account"} \/ StatsStep("stats1"))]_vars
  /\ [][stats'.stime # stats.stime => (pc = "setup" \/ StatsStep("stats1"))]_vars
  /\ [](stats.stime <= now)
  /\ [](report # NoReport => report.elapsed >= 0)

\* SIGUSR2 has been handled after an answered query: the report shows the
\* query, the counters are zero and the epoch starts at the time of the report
C11_Witness ==
  /\ pc = "chkhup" /\ did = <<"stats1">>
  /\ report.s.nrep = 1 /\ report.elapsed = 1
  /\ Counters(stats) = ZeroStats
  /\ stats.stime = 1

(***************************************************************************)
(* The order of the actions of one drain.                                  *)
(***************************************************************************)
\* the place of an action in the drain: report, rotate, reload
Rank(x) ==
  CASE x = "rotate" -> 2
    [] x = "warn"   -> 3
    [] x = "reload" -> 4
    [] OTHER        -> 1

Has(b) == And(signalled, b) # 0

\* what the drain has done before signalled = 0 is in the order report,
\* rotate, reload, each on its own bits; a hang-up gives a rotate (with a log file) and a reload
DrainOrder ==
  (pc \in DrainPcs /\ pc # "unblock") =>
    /\ \A i, j \in 1..Len(did) : i < j => Rank(did[i]) < Rank(did[j])
    /\ Count(did, "stats1") > 0 => Has(SIGNALLED_USR2)
    /\ Count(did, "stats0") > 0 => (Has(SIGNALLED_USR1) /\ ~Has(SIGNALLED_USR2))
    /\ Count(did, "rotate") > 0 => (Has(SIGNALLED_HUP) /\ logfile)
    /\ Count(did, "reload") > 0 => (Has(SIGNALLED_HUP) \/ Has(SIGNALLED_ALRM))
    /\ (pc = "clear" /\ Has(SIGNALLED_HUP)) =>
         /\ did[Len(did)] = "reload"
         /\ logfile => Count(did, "rotate") = 1

\* C12: the actions of one drain run in the order shutdown, report, rotate,
\* reload, and a drain in which the shutdown bit is set performs no rotate and
\* no reload.
C12_FixedOrder ==
  /\ DrainOrder
  /\ (pc \in DrainPcs /\ pc # "unblock" /\ Has(SIGNALLED_TERM)) =>
       (Count(did, "rotate") = 0 /\ Count(did, "reload") = 0)

(***************************************************************************)
(* Shutdown.                                                               *)
(***************************************************************************)
\* C13: once a shutdown request is recorded, the process ends at the next
\* test of signalled without waiting for another datagram or signal: it is
\* never blocked in recvfrom with the shutdown bit set, no handler running and
\* no interruption of the call under way.
C13_ShutdownAtBoundary ==
  ~(/\ pc = "recvwait"
    /\ Has(SIGNALLED_TERM)
    /\ ~eintr
    /\ hstack = <<>>
    /\ sigpend = {})

(***************************************************************************)
(* The accounting of the datagrams.                                        *)
(***************************************************************************)
\* the datagrams counted in s
Total(s) == s.nrep + s.nnxd + s.nerr + s.nbad

\* s with one datagram of class c added: qq bytes in, rr bytes out
Plus(s, c, qq, rr, ar) ==
  CASE c = "rep" -> [s EXCEPT !.nrep = @ + 1, !.irep = @ + qq, !.orep = @ + rr, !.arep = @ + ar]
    [] c = "nxd" -> [s EXCEPT !.nnxd = @ + 1, !.inxd = @ + qq, !.onxd = @ + rr]
    [] c = "err" -> [s EXCEPT !.nerr = @ + 1, !.ierr = @ + qq, !.oerr = @ + rr]
    [] c = "bad" -> [s EXCEPT !.nbad = @ + 1, !.ibad = @ + qq]

ClassOf(rc) == IF rc = "NOERROR" THEN "rep" ELSE IF rc = "NXDOMAIN" THEN "nxd" ELSE "err"

\* C14: a receive that fails or returns nothing changes no counter; a request
\* replypacket rejects adds one datagram and its length to the bad counters
\* and is not answered; any other request adds one datagram, its length and
\* the reply length to the class of its reply code, before the first sendto;
\* no step of the send, retried or abandoned, changes a counter; each
\* datagram in hand passes these steps once.
C14_AccountedOnce ==
  /\ [][(pc = "recvwait" /\ pc' = "test") => stats' = stats]_vars
  /\ [][(pc = "filter" /\ pc' # pc) => stats' = stats]_vars
  /\ [][(pc = "reply" /\ pc' = "test") =>
          (stats' = Plus(stats, "bad", q, 0, 0) /\ sent' = sent)]_vars
  /\ [][(pc = "reply" /\ pc' = "account") => (stats' = stats /\ r' > 0)]_vars
  /\ [][(pc = "account" /\ pc' # pc) =>
          /\ pc' = "send"
          /\ sent' = sent
          /\ stats' = Plus(stats, ClassOf(reply.rcode), q, r, reply.arcount)]_vars
  /\ [][pc = "send" => (stats' = stats /\ pc' \in {"send", "test"})]_vars
  /\ [][sent' # sent => (pc = "send" /\ sent' = sent + 1 /\ pc' = "test")]_vars
  /\ [][Total(stats') # Total(stats) =>
          \/ pc \in {"reply", "account"} /\ q > 0 /\ Total(stats') = Total(stats) + 1
          \/ pc = "chkstats"]_vars
  /\ [][pc = "reply" => pc' \in {"reply", "test", "account"}]_vars

\* a rejected request and a name-not-found reply have been counted, the reply
\* not yet sent
C14_Witness ==
  /\ pc = "send" /\ sent = 0
  /\ stats.nbad = 1 /\ stats.ibad = 1
  /\ stats.nnxd = 1 /\ stats.inxd = MaxLen /\ stats.onxd = MaxLen
  /\ Total(stats) = 2

(***************************************************************************)
(* The reload timer.                                                       *)
(***************************************************************************)
\* the process has ended
Ended == pc \in {"aborted", "exited"}

Receiving == pc \in {"recv", "recvwait", "filter", "reply", "account", "send"}

RotateStep == pc = "chkhup" /\ pc' # pc /\ Has(SIGNALLED_HUP) /\ logfile

\* C17: a rotation replaces the handle by the reopened file, or by none when
\* the reopen fails, and the drain goes on; with no handle a request is still
\* counted and goes on to be sent, and nothing is logged; with a handle (and
\* no log filter) it is logged again; the handle changes only in the setup
\* and in a rotation.
C17_RotateFailure ==
  /\ [][RotateStep =>
          /\ pc' = "chkreload"
          /\ Count(did', "rotate") = 1
          /\ flog' = (Count(did', "warn") = 0)]_vars
  /\ [][(pc = "account" /\ pc' # pc /\ ~flog) =>
          /\ qlog' = qlog
          /\ pc' = "send"
          /\ Total(stats') = Total(stats) + 1]_vars
  /\ [][(pc = "account" /\ pc' # pc /\ flog /\ logfilt = NULL) =>
          qlog' = Append(qlog, sin)]_vars
  /\ [][flog' # flog => (pc = "setup" \/ RotateStep)]_vars
  /\ [](~logfile => ~flog)

\* the log that held a record has been closed by a rotation whose reopen
\* failed, and the drain goes on
C17_Witness ==
  /\ pc = "chkreload" /\ did = <<"rotate", "warn">>
  /\ ~flog /\ qlog # <<>>

(***************************************************************************)
(* The build of a netlist.                                                 *)
(***************************************************************************)
\* the number of rules a token stands for, its mask (network order) and the
\* address of its k-th rule (network order) before masking
NRules(t) == IF t.ip THEN 1 ELSE Len(t.he)

TokMask(t) == IF ~t.ip /\ t.bits = -1 THEN IP4ALL ELSE htonl(ip4mask(t.bits))

TokAddr(t, k) == IF t.ip THEN htonl(t.addr) ELSE t.he[k]

\* the rules of the tokens before token i
RECURSIVE Offset(_, _)
Offset(toks, i) == IF i = 1 THEN 0 ELSE Offset(toks, i - 1) + NRules(toks[i - 1])

\* the netlist of -a has been accepted and built
Built == pc = "parsed" /\ optA.given

\* C18: the list parsenetlist builds holds the rules of the tokens in token
\* order, one per address of a host name, each with the verdict of its own
\* token (false iff the token starts with '!') and the mask of its token,
\* the address masked; then one catch-all rule, the only rule with mask 0,
\* whose verdict is the negation of that of the last token.
C18_NetlistBuild ==
  Built =>
    LET toks == optA.toks
        n == Len(toks)
    IN /\ Len(qryfilt) = Offset(toks, n + 1) + 1
       /\ \A i \in 1..n : \A k \in 1..NRules(toks[i]) :
            LET e == qryfilt[Offset(toks, i) + k]
            IN /\ e.value = (IF toks[i].neg THEN 0 ELSE 1)
               /\ e.mask = TokMask(toks[i])
               /\ e.addr = BitAnd(TokAddr(toks[i], k), TokMask(toks[i]))
       /\ \A j \in 1..Len(qryfilt) :
            /\ BitAnd(qryfilt[j].addr, qryfilt[j].mask) = qryfilt[j].addr
            /\ qryfilt[j].mask = IP4ZERO <=> j = Len(qryfilt)
       /\ qryfilt[Len(qryfilt)].addr = IP4ZERO
       /\ n > 0 => qryfilt[Len(qryfilt)].value = (IF toks[n].neg THEN 1 ELSE 0)

\* a host name with two addresses and /24, then a negated network: four
\* rules, the first address masked, the catch-all accepting
C18_Witness ==
  /\ Built /\ byteorder = "little"
  /\ optA.toks = <<HostTok(FALSE, MapHtonl(<<A127_0_0_2, A192_168_1_9>>), 24),
                   IpTok(TRUE, A127_0_0_1, 8)>>
  /\ Len(qryfilt) = 4
  /\ qryfilt[1] = [addr |-> IP(0, 0, 0, 127), mask |-> IP(0, 255, 255, 255), value |-> 1]
  /\ qryfilt[3] = [addr |-> IP(0, 0, 0, 127), mask |-> IP(0, 0, 0, 255), value |-> 0]
  /\ qryfilt[4] = CatchAll(1)

(***************************************************************************)
(* CIDR ranges.                                                            *)
(***************************************************************************)
\* the host bits of the range ip4cidr() parsed
HostBits == BitAnd(cidr.a, BitNot(ip4mask(cidr.b)))

\* C19: for a prefix length of 1..32, ip4parse_cidr returns the length and
\* leaves the address when the host bits are zero; with host bits it returns
\* 0 in the default mode, and with -e it returns the length and hands back
\* the address with the host bits cleared.
C19_CidrHostBits ==
  (cidr.ret # -1 /\ cidr.b \in 1..MaxBits) =>
    /\ HostBits = IP4ZERO => (cidr.ret = cidr.b /\ cidr.ap = cidr.a)
    /\ (HostBits # IP4ZERO /\ accept_in_cidr = 0) => cidr.ret = 0
    /\ (HostBits # IP4ZERO /\ accept_in_cidr # 0) =>
         (cidr.ret = cidr.b /\ cidr.ap = BitAnd(cidr.a, ip4mask(cidr.b)))

(***************************************************************************)
(* Allocation failure.                                                     *)
(***************************************************************************)
\* the step is the first call of do_reload of the run
FirstLoad == ~tried /\ tried'

\* C20: oom() called in the first load of the run ends the process, with or
\* without quickstart; called in a later reload it returns and the drain goes
\* on.
C20_OomFatalInitially ==
  /\ [][(FirstLoad /\ oomcall') => pc' = "aborted"]_vars
  /\ [][(tried /\ pc = "chkreload" /\ pc' # pc /\ oomcall') => pc' = "clear"]_vars

=============================================================================
